---- MODULE Spec2Model ----
(***************************************************************************)
(* Model of the romspedia client: the identifier allocator of              *)
(* RomspediaDownloader (nextId, loadState, saveState, setStartId), the     *)
(* listing adapter getRomsByConsole, the all-pages traversal of            *)
(* RomspediaClient.fetchRoms, and the enrichment and merge/save steps of   *)
(* main() in client.ts.  One run of the command line is a sequence of      *)
(* steps, one per awaited call; the two files (.romspedia_state.json and   *)
(* the output document) are the only state that survives between runs.     *)
(*                                                                         *)
(* Numbers that the program stores as JavaScript numbers and that can hold *)
(* a fraction (nextId and the ids made from it) are counted in units of    *)
(* 1/Unit: the integer k is the value k * Unit, and nextId++ adds Unit.    *)
(***************************************************************************)
EXTENDS Integers, Sequences, FiniteSets, TLC

\* ---------------------------------------------------------------- bounds
Unit == 2        \* resolution of stored numbers: 1 is Unit, 1/2 is 1 (Unit = 2)
MaxUrl == 2      \* distinct rom urls the site can list
MaxRuns == 2     \* command-line runs in one behaviour
MaxStored == 2   \* largest nextId (in whole numbers) a foreign state file holds
MaxPageArg == 2  \* largest --page argument
MaxMerges == 2   \* saves that made the document a run starts from

Urls == 1..MaxUrl
Consoles == {"nintendo", "gameboy"}
\* --page=-1 asks for all pages; its entry in the document is labelled 'all',
\* which the model also writes as AllPages (no single page is ever labelled -1).
AllPages == -1
PageArgs == {AllPages} \cup (1..MaxPageArg)

\* ------------------------------------------------------- the two files
\* .romspedia_state.json: absent, unreadable (readFileSync throws),
\* unparsable (JSON.parse throws), the JSON value null, an object with no
\* numeric nextId, or an object with a numeric nextId (val, in 1/Unit).
StateFileOf(kind, val) == [kind |-> kind, val |-> val]
NoStateFile == StateFileOf("absent", 0)

\* The output document: absent, unparsable, or an object with a consoles map
\* (an object without one is an object with an empty one: main adds it).
\* Foreign contents that parse: the JSON value null, a number or a string
\* (scalar), an array, and an object whose entry for the console of the run
\* is an object without a pages list (noPages).
EmptyConsoles == [c \in {} |-> 0]
DocOf(kind, consoles, totalConsoles) ==
    [kind |-> kind, consoles |-> consoles, totalConsoles |-> totalConsoles]
NoDoc == DocOf("absent", EmptyConsoles, 0)
CorruptDoc == DocOf("unparsable", EmptyConsoles, 0)
BareObjectDoc == DocOf("object", EmptyConsoles, 0)
ForeignDocs ==
    {BareObjectDoc} \cup {DocOf(k, EmptyConsoles, 0) : k \in {"null", "scalar", "array", "noPages"}}

VARIABLES
    stateFile,        \* content of .romspedia_state.json
    outFile,          \* content of the output document file
    runs,             \* runs launched so far
    pc,               \* where the run is: idle (no process), constructed, fetch,
                      \* collect, enrich, save, done
    consoleName,      \* --console
    pageNumber,       \* --page
    startId,          \* --start-id
    nextId,           \* RomspediaDownloader.nextId
    currentPage,      \* fetchRoms: currentPage
    allRoms,          \* fetchRoms: allRoms
    seenUrls,         \* fetchRoms: seenUrls
    roms,             \* main: roms, the list fetchRoms returned
    romsWithDetails,  \* main: romsWithDetails
    pageLog,          \* history: the adapter calls of this run, in order, each
                      \* with the page asked for and the list returned
    issued,           \* history: the ids handed out in this run, in order
    loaded,           \* history: nextId when the constructor returned
    base,             \* history: nextId when the run's fetch began
    readDoc,          \* history: the document file as the save step read it
    prevRoms,         \* history: the list the previous run fetched
    detailIds,        \* history: the ids getRomDetails handed out in this run
    persist,          \* history: how this run's saveState() ended: none (not
                      \* called), saved, failed (caught inside), raised
    atLaunch,         \* history: the two files as the run found them
    cut               \* history: how the run before was cut off, if it was

vars == <<stateFile, outFile, runs, pc, consoleName, pageNumber, startId, nextId,
          currentPage, allRoms, seenUrls, roms, romsWithDetails,
          pageLog, issued, loaded, base, readDoc, prevRoms, detailIds, persist,
          atLaunch, cut>>

\* ------------------------------------------------- identifier allocator
\* private nextId: number = 1
InitialNextId == Unit

\* Departures from nextId++: a counter that is read but not advanced,
\* ++nextId, and a counter that goes down.
AllocateBackward(n) == [id |-> n, next |-> n - Unit]
AllocateStuck(n) == [id |-> n, next |-> n]
AllocatePreIncrement(n) == [id |-> n + Unit, next |-> n + Unit]
\* this.nextId++ : the value handed out and the counter afterwards.
Allocate(n) == [id |-> n, next |-> n + Unit]

\* loadState(): every failure is caught and keeps the counter it found.
LoadState(file, cur) ==
    CASE file.kind = "absent" -> cur                       \* existsSync is false
      [] file.kind \in {"unreadable", "unparsable"} -> cur \* thrown and caught
      [] file.kind = "null" -> cur                         \* data is falsy
      [] file.kind = "noNextId" -> cur                     \* typeof is not 'number'
      [] file.kind = "nextId" ->
            IF file.val > 0 THEN file.val ELSE cur
      [] OTHER -> cur

\* A departure from saveState: the counter written is the initial one.
SaveStateStale(file, cur, writeOk) ==
    [file |-> IF writeOk THEN StateFileOf("nextId", InitialNextId) ELSE file,
     raised |-> FALSE]
\* A departure from saveState: the error of a failed write leaves the method.
SaveStateRaising(file, cur, writeOk) ==
    [file |-> IF writeOk THEN StateFileOf("nextId", cur) ELSE file,
     raised |-> ~writeOk]
\* saveState(): writes { nextId }; a failed write is caught inside the method
\* and changes nothing.  The file afterwards, and whether an error left it.
SaveState(file, cur, writeOk) ==
    [file |-> IF writeOk THEN StateFileOf("nextId", cur) ELSE file,
     raised |-> FALSE]

\* --start-id: absent, or the result of parseInt (a whole number or NaN).
StartIdOf(kind, val) == [kind |-> kind, val |-> val]
NoStartId == StartIdOf("none", 0)
NaNStartId == StartIdOf("nan", 0)
\* startId > 0 in JavaScript: false for NaN.
GreaterThanZero(arg) == arg.kind = "num" /\ arg.val > 0

\* A departure from setStartId: a start id below the counter is not taken.
SetStartIdKeepMax(cur, arg) ==
    IF GreaterThanZero(arg) /\ arg.val > cur THEN arg.val ELSE cur
\* setStartId(startId)
SetStartId(cur, arg) ==
    IF GreaterThanZero(arg) THEN arg.val ELSE cur

\* ------------------------------------------------------ listing adapter
\* A RomInfo, cut to what the engine reads: the listing sets url and
\* downloadUrl to romUrl; a detail record keeps the url it was asked for, has
\* the download link of its page as downloadUrl, and carries the detail fields.
RomOf(id, url, downloadUrl, detail) ==
    [id |-> id, url |-> url, downloadUrl |-> downloadUrl, detail |-> detail]

\* A departure from the loop below: a new record goes in front of the others.
RECURSIVE KeepNewest(_, _, _)
KeepNewest(seen, acc, xs) ==
    IF xs = <<>> THEN [seen |-> seen, acc |-> acc]
    ELSE IF Head(xs).downloadUrl \in seen
         THEN KeepNewest(seen, acc, Tail(xs))
         ELSE KeepNewest(seen \cup {Head(xs).downloadUrl},
                         <<Head(xs)>> \o acc, Tail(xs))
\* A departure from the loop below: every record is appended, seen or not.
RECURSIVE KeepAll(_, _, _)
KeepAll(seen, acc, xs) ==
    IF xs = <<>> THEN [seen |-> seen, acc |-> acc]
    ELSE KeepAll(seen \cup {Head(xs).downloadUrl}, Append(acc, Head(xs)), Tail(xs))
\* The loop of fetchRoms over one page; the two Map-based duplicate removals
\* (getRomsByConsole's uniqueMap, fetchRoms' map) are this loop from nothing.
\* for (const r of xs) if (!seen.has(r.downloadUrl)) { seen.add(..); acc.push(r) }
RECURSIVE KeepFirst(_, _, _)
KeepFirst(seen, acc, xs) ==
    IF xs = <<>> THEN [seen |-> seen, acc |-> acc]
    ELSE IF Head(xs).downloadUrl \in seen
         THEN KeepFirst(seen, acc, Tail(xs))
         ELSE KeepFirst(seen \cup {Head(xs).downloadUrl},
                        Append(acc, Head(xs)), Tail(xs))

\* Array.from(uniqueMap.values()) of getRomsByConsole.
UniqueRoms(xs) == KeepFirst({}, <<>>, xs).acc

\* The .each of getRomsByConsole over the links that pass its filter:
\* each one takes the next id, duplicates included.
RECURSIVE ListRoms(_, _)
ListRoms(links, n) ==
    IF links = <<>> THEN [roms |-> <<>>, nextId |-> n]
    ELSE LET a == Allocate(n)
             rest == ListRoms(Tail(links), a.next)
         IN [roms |-> <<RomOf(a.id, Head(links), Head(links), FALSE)>> \o rest.roms,
             nextId |-> rest.nextId]

\* What the site answers to one page request: a failure (axios throws), or
\* the rom links of the page, in page order.
ResponseOf(ok, links) == [ok |-> ok, links |-> links]
MaxLinks == MaxUrl
RECURSIVE SeqsUpTo(_, _)
SeqsUpTo(S, n) ==
    IF n = 0 THEN {<<>>}
    ELSE LET shorter == SeqsUpTo(S, n - 1)
         IN shorter \cup {Append(s, x) : s \in shorter, x \in S}
Responses ==
    {ResponseOf(FALSE, <<>>)} \cup {ResponseOf(TRUE, l) : l \in SeqsUpTo(Urls, MaxLinks)}

\* A site whose pages hold at most one link.
OneLinkResponses ==
    {ResponseOf(FALSE, <<>>)} \cup {ResponseOf(TRUE, l) : l \in SeqsUpTo(Urls, 1)}

\* getRomsByConsole(consoleName, page): the list returned and the counter left.
GetRomsByConsole(resp, n) ==
    IF ~resp.ok THEN [roms |-> <<>>, nextId |-> n, ids |-> <<>>]
    ELSE LET listed == ListRoms(resp.links, n)
         IN [roms |-> UniqueRoms(listed.roms), nextId |-> listed.nextId,
             ids |-> [i \in 1..Len(listed.roms) |-> listed.roms[i].id]]

\* The download link found on the detail page of url: a locator of the
\* site's choosing, here one per rom and none of the listing urls.
DownloadLink(url) == MaxUrl + url

\* getRomDetails(url): null (request failed, or no download link on the page),
\* or a fresh record that takes the next id.
GetRomDetails(found, url, n) ==
    IF ~found THEN [rom |-> <<>>, nextId |-> n, ids |-> <<>>]
    ELSE LET a == Allocate(n)
         IN [rom |-> <<RomOf(a.id, url, DownloadLink(url), TRUE)>>,
             nextId |-> a.next, ids |-> <<a.id>>]

\* ---------------------------------------------------- all-pages traversal
\* One adapter call as the history keeps it: the page asked for, whether
\* the request went through, and the list returned.
LogEntry(page, ok, rs) == [page |-> page, ok |-> ok, roms |-> rs]

\* A departure from newCount: every record counts as new.
NewCountAll(seen, xs) == Len(xs)
\* let newCount = 0; for (const r of roms) if (!seenUrls.has(r.downloadUrl)) newCount++
NewCount(seen, xs) ==
    Cardinality({i \in 1..Len(xs) : xs[i].downloadUrl \notin seen})

\* A departure from the breaks: a page with nothing new does not stop the loop.
StopOnEmptyOnly(seen, xs) == Len(xs) = 0
\* A departure from the breaks: an empty page does not stop the loop.
StopOnRepeatOnly(seen, xs) == Len(xs) > 0 /\ NewCount(seen, xs) = 0
\* The two breaks of the loop: the page is empty, or holds nothing new.
StopTraversal(seen, xs) == Len(xs) = 0 \/ NewCount(seen, xs) = 0

\* The Map-based duplicate removal after the loop of fetchRoms.
DedupByDownloadUrl(xs) == KeepFirst({}, <<>>, xs).acc

\* ------------------------------------------------------------ merge, save
\* One entry of a console's pages: { page, totalRoms, fetchedAt, roms }
\* (the time stamps are left out).
PageEntry(label, rs) == [page |-> label, totalRoms |-> Len(rs), roms |-> rs]
ConsoleData(pages, totalPages, totalRoms) ==
    [pages |-> pages, totalPages |-> totalPages, totalRoms |-> totalRoms]

\* A departure from the fresh { consoles: {} }: what the file shows is kept.
ExistingConsolesKept(file) == file.consoles
\* The existingData main merges into: the parsed file, or { consoles: {} }
\* when the file is absent or cannot be parsed.
ExistingConsoles(file) ==
    IF file.kind = "object" THEN file.consoles ELSE EmptyConsoles

\* if (!existingData.consoles[consoleName]) existingData.consoles[consoleName] = { pages: [] }
EnsureConsole(consoles, c) ==
    IF c \in DOMAIN consoles THEN consoles
    ELSE [k \in DOMAIN consoles \cup {c} |->
             IF k = c THEN ConsoleData(<<>>, 0, 0) ELSE consoles[k]]

\* A departure from findIndex: no entry is ever found.
FindIndexNone(pages, label) == 0
\* pages.findIndex(p => p.page === label): the first match, 0 for none (-1 in the code).
FindIndex(pages, label) ==
    IF \E i \in 1..Len(pages) : pages[i].page = label
    THEN CHOOSE i \in 1..Len(pages) :
            /\ pages[i].page = label
            /\ \A j \in 1..(i - 1) : pages[j].page # label
    ELSE 0

\* A departure from the replacement: the new entry is all that is kept.
PutPageOnly(pages, entry) == <<entry>>
\* A departure from the replacement: the entry is always pushed.
PutPageAppend(pages, entry) == Append(pages, entry)
\* if (index >= 0) pages[index] = pageEntry; else pages.push(pageEntry)
PutPage(pages, entry) ==
    LET i == FindIndex(pages, entry.page)
    IN IF i > 0 THEN [pages EXCEPT ![i] = entry] ELSE Append(pages, entry)

\* A departure from pages.sort: the list is left as it is.
SortPagesNot(pages) == pages
\* A departure from totalPages: the 'all' entry is counted as a page.
TotalPagesWithAll(pages) == Len(pages)

\* The comparator of pages.sort.
ComparePages(a, b) ==
    IF a.page = AllPages THEN 1
    ELSE IF b.page = AllPages THEN -1
    ELSE a.page - b.page

\* Array.prototype.sort is stable: an entry goes behind those it does not precede.
RECURSIVE InsertPage(_, _)
InsertPage(sorted, e) ==
    IF sorted = <<>> THEN <<e>>
    ELSE IF ComparePages(sorted[Len(sorted)], e) > 0
         THEN Append(InsertPage(SubSeq(sorted, 1, Len(sorted) - 1), e),
                     sorted[Len(sorted)])
         ELSE Append(sorted, e)
RECURSIVE SortPages(_)
SortPages(pages) ==
    IF pages = <<>> THEN <<>>
    ELSE InsertPage(SortPages(SubSeq(pages, 1, Len(pages) - 1)), pages[Len(pages)])

\* pages.filter(p => p.page !== 'all').length
TotalPages(pages) == Cardinality({i \in 1..Len(pages) : pages[i].page # AllPages})

\* pages.reduce((sum, p) => sum + p.totalRoms, 0)
RECURSIVE TotalRoms(_)
TotalRoms(pages) ==
    IF pages = <<>> THEN 0 ELSE Head(pages).totalRoms + TotalRoms(Tail(pages))

\* The label of the entry a run writes: 'all' for --page=-1, else the page number.
PageLabel(page) == IF page = -1 THEN AllPages ELSE page

\* The document main writes: the console's entry put in place, its pages
\* sorted, its totals and the document's totalConsoles recomputed.
MergeDocument(file, c, page, rs) ==
    LET consoles == EnsureConsole(ExistingConsoles(file), c)
        pages == SortPages(PutPage(consoles[c].pages, PageEntry(PageLabel(page), rs)))
        merged == [consoles EXCEPT
                     ![c] = ConsoleData(pages, TotalPages(pages), TotalRoms(pages))]
    IN DocOf("object", merged, Cardinality(DOMAIN merged))

\* ------------------------------------------------------------ the inputs
\* State files a run may find: the program's own (a whole nextId) and foreign ones.
StateFiles ==
    {StateFileOf(k, 0) : k \in {"absent", "unreadable", "unparsable", "null", "noNextId"}}
        \cup {StateFileOf("nextId", v) : v \in (0 - Unit)..(MaxStored * Unit)}
\* --start-id arguments: none, NaN (parseInt of a non-number), whole numbers.
StartIds ==
    {NoStartId, NaNStartId}
        \cup {StartIdOf("num", v * Unit) : v \in (0 - 1)..(MaxStored + 1)}

\* -------------------------------------------------------------- the state
\* The two files at one moment.
FilesOf(state, doc) == [stateFile |-> state, outFile |-> doc]
\* A run that was cut off: before the saveState() of its all-pages fetch
\* (before) or elsewhere (later), the counter its constructor loaded, the
\* first id it had handed out (0 for none), the files it had found.
CutOf(at, counter, first, files) ==
    [at |-> at, loaded |-> counter, first |-> first, files |-> files]
NoCut == CutOf("none", InitialNextId, 0, FilesOf(NoStateFile, NoDoc))
InitRun ==
    /\ runs = 0
    /\ pc = "idle"
    /\ consoleName = "nintendo"
    /\ pageNumber = 1
    /\ startId = NoStartId
    /\ nextId = InitialNextId
    /\ currentPage = 1
    /\ allRoms = <<>>
    /\ seenUrls = {}
    /\ roms = <<>>
    /\ romsWithDetails = <<>>
    /\ pageLog = <<>>
    /\ issued = <<>>
    /\ loaded = InitialNextId
    /\ base = InitialNextId
    /\ readDoc = NoDoc
    /\ prevRoms = <<>>
    /\ detailIds = {}
    /\ persist = "none"
    /\ atLaunch = FilesOf(stateFile, outFile)
    /\ cut = NoCut

\* No state file, no document or a corrupt one: a first use of the program.
Init ==
    /\ stateFile = NoStateFile
    /\ outFile \in {NoDoc, CorruptDoc}
    /\ InitRun

\* No state file and no document.
InitFresh ==
    /\ stateFile = NoStateFile
    /\ outFile = NoDoc
    /\ InitRun

\* ------------------------------------------------------------ the actions
\* main up to new RomspediaClient(): the arguments are parsed, the
\* downloader is constructed (nextId = 1, then loadState()).
Launch(c, p, sid) ==
    /\ pc = "idle"
    /\ runs < MaxRuns
    /\ runs' = runs + 1
    /\ consoleName' = c
    /\ pageNumber' = p
    /\ startId' = sid
    /\ nextId' = LoadState(stateFile, InitialNextId)
    /\ currentPage' = 1
    /\ allRoms' = <<>>
    /\ seenUrls' = {}
    /\ roms' = <<>>
    /\ romsWithDetails' = <<>>
    /\ pageLog' = <<>>
    /\ issued' = <<>>
    /\ loaded' = nextId'
    /\ base' = nextId'
    /\ readDoc' = NoDoc
    /\ detailIds' = {}
    /\ persist' = "none"
    /\ atLaunch' = FilesOf(stateFile, outFile)
    /\ pc' = "constructed"
    /\ UNCHANGED <<stateFile, outFile, prevRoms, cut>>

\* if (startId !== undefined) downloader.setStartId(startId)
ApplyStartId ==
    /\ pc = "constructed"
    /\ nextId' = IF startId.kind = "none" THEN nextId ELSE SetStartId(nextId, startId)
    /\ base' = nextId'
    /\ pc' = "fetch"
    /\ UNCHANGED <<stateFile, outFile, runs, consoleName, pageNumber, startId,
                   currentPage, allRoms, seenUrls, roms, romsWithDetails,
                   pageLog, issued, loaded, readDoc, prevRoms, detailIds, persist,
                   atLaunch, cut>>

\* A departure from the test below: an empty list is saved like any other.
AfterFetchAlways(rs) == IF Len(rs) > 0 THEN "enrich" ELSE "save"
\* Where main goes with the list fetchRoms returned: if (roms.length > 0) ...
AfterFetch(rs) == IF Len(rs) > 0 THEN "enrich" ELSE "done"

\* A departure from the single call: after a page that listed something the
\* caller is not answered and another request follows.
FetchOnePageOnward(resp) ==
    /\ pc = "fetch"
    /\ pageNumber # -1
    /\ LET got == GetRomsByConsole(resp, nextId)
       IN /\ nextId' = got.nextId
          /\ roms' = roms \o got.roms
          /\ pageLog' = Append(pageLog, LogEntry(pageNumber, resp.ok, got.roms))
          /\ issued' = issued \o got.ids
          /\ pc' = IF got.roms = <<>> THEN AfterFetch(roms') ELSE "fetch"
    /\ UNCHANGED <<stateFile, outFile, runs, consoleName, pageNumber, startId,
                   currentPage, allRoms, seenUrls, romsWithDetails,
                   loaded, base, readDoc, prevRoms, detailIds, persist,
                   atLaunch, cut>>
\* fetchRoms(consoleName, page) with page other than -1: one adapter call.
FetchOnePage(resp) ==
    /\ pc = "fetch"
    /\ pageNumber # -1
    /\ LET got == GetRomsByConsole(resp, nextId)
       IN /\ nextId' = got.nextId
          /\ roms' = got.roms
          /\ pageLog' = Append(pageLog, LogEntry(pageNumber, resp.ok, got.roms))
          /\ issued' = issued \o got.ids
          /\ pc' = AfterFetch(got.roms)
    /\ UNCHANGED <<stateFile, outFile, runs, consoleName, pageNumber, startId,
                   currentPage, allRoms, seenUrls, romsWithDetails,
                   loaded, base, readDoc, prevRoms, detailIds, persist,
                   atLaunch, cut>>

\* A departure from currentPage++: the page is asked for again.
SamePage(page) == page
\* currentPage++
NextPage(page) == page + 1

\* A departure from the loop below: the counter is persisted after every page.
TraversePageSaving(resp) ==
    /\ pc = "fetch"
    /\ pageNumber = -1
    /\ LET got == GetRomsByConsole(resp, nextId)
       IN /\ nextId' = got.nextId
          /\ stateFile' = StateFileOf("nextId", got.nextId)
          /\ pageLog' = Append(pageLog, LogEntry(currentPage, resp.ok, got.roms))
          /\ issued' = issued \o got.ids
          /\ IF StopTraversal(seenUrls, got.roms)
             THEN /\ pc' = "collect"
                  /\ UNCHANGED <<currentPage, allRoms, seenUrls>>
             ELSE LET kept == KeepFirst(seenUrls, allRoms, got.roms)
                  IN /\ seenUrls' = kept.seen
                     /\ allRoms' = kept.acc
                     /\ currentPage' = NextPage(currentPage)
                     /\ pc' = "fetch"
    /\ UNCHANGED <<outFile, runs, consoleName, pageNumber, startId,
                   roms, romsWithDetails, loaded, base, readDoc, prevRoms,
                   detailIds, persist,
                   atLaunch, cut>>

\* One turn of the while (true) of fetchRoms(consoleName, -1).
TraversePage(resp) ==
    /\ pc = "fetch"
    /\ pageNumber = -1
    /\ LET got == GetRomsByConsole(resp, nextId)
       IN /\ nextId' = got.nextId
          /\ pageLog' = Append(pageLog, LogEntry(currentPage, resp.ok, got.roms))
          /\ issued' = issued \o got.ids
          /\ IF StopTraversal(seenUrls, got.roms)
             THEN /\ pc' = "collect"          \* break
                  /\ UNCHANGED <<currentPage, allRoms, seenUrls>>
             ELSE LET kept == KeepFirst(seenUrls, allRoms, got.roms)
                  IN /\ seenUrls' = kept.seen
                     /\ allRoms' = kept.acc
                     /\ currentPage' = NextPage(currentPage)
                     /\ pc' = "fetch"
    /\ UNCHANGED <<stateFile, outFile, runs, consoleName, pageNumber, startId,
                   roms, romsWithDetails, loaded, base, readDoc, prevRoms,
                   detailIds, persist,
                   atLaunch, cut>>

\* After the loop: the duplicate removal, saveState() and the return to main.
ReturnAll(writeOk) ==
    /\ pc = "collect"
    /\ roms' = DedupByDownloadUrl(allRoms)
    /\ LET saved == SaveState(stateFile, nextId, writeOk)
       IN /\ stateFile' = saved.file
          /\ persist' = IF saved.raised THEN "raised"     \* caught by fetchRoms
                        ELSE IF writeOk THEN "saved" ELSE "failed"
    /\ pc' = AfterFetch(roms')
    /\ UNCHANGED <<outFile, runs, consoleName, pageNumber, startId, nextId,
                   currentPage, allRoms, seenUrls, romsWithDetails,
                   pageLog, issued, loaded, base, readDoc, prevRoms, detailIds,
                   atLaunch, cut>>

\* A departure from the line below: the detail record keeps its own id.
WithDetailId(detail, rom) == detail
\* romDetails.id = rom.id
WithListedId(detail, rom) == [detail EXCEPT !.id = rom.id]

\* A departure from the detail loop below: a rom whose details were not
\* fetched is left out and ends the loop.
EnrichNextStopping(found) ==
    /\ pc = "enrich"
    /\ LET rom == roms[Len(romsWithDetails) + 1]
           got == GetRomDetails(found, rom.downloadUrl, nextId)
       IN /\ nextId' = got.nextId
          /\ issued' = issued \o got.ids
          /\ detailIds' = detailIds \cup {got.ids[i] : i \in 1..Len(got.ids)}
          /\ romsWithDetails' =
                IF got.rom # <<>>
                THEN Append(romsWithDetails, WithListedId(got.rom[1], rom))
                ELSE romsWithDetails
          /\ pc' = IF got.rom # <<>> /\ Len(romsWithDetails') < Len(roms)
                   THEN "enrich" ELSE "save"
    /\ UNCHANGED <<stateFile, outFile, runs, consoleName, pageNumber, startId,
                   currentPage, allRoms, seenUrls, roms,
                   pageLog, loaded, base, readDoc, prevRoms, persist,
                   atLaunch, cut>>

\* One turn of the detail loop of main: fetchRomDetails(rom.downloadUrl),
\* then romDetails.id = rom.id, or the listed rom when it returned null.
EnrichNext(found) ==
    /\ pc = "enrich"
    /\ LET rom == roms[Len(romsWithDetails) + 1]
           got == GetRomDetails(found, rom.downloadUrl, nextId)
       IN /\ nextId' = got.nextId
          /\ issued' = issued \o got.ids
          /\ detailIds' = detailIds \cup {got.ids[i] : i \in 1..Len(got.ids)}
          /\ romsWithDetails' =
                Append(romsWithDetails,
                       IF got.rom # <<>> THEN WithListedId(got.rom[1], rom)
                       ELSE rom)
    /\ pc' = IF Len(romsWithDetails') < Len(roms) THEN "enrich" ELSE "save"
    /\ UNCHANGED <<stateFile, outFile, runs, consoleName, pageNumber, startId,
                   currentPage, allRoms, seenUrls, roms,
                   pageLog, loaded, base, readDoc, prevRoms, persist,
                   atLaunch, cut>>

\* A departure from the lines below: a failed write is passed over.
AfterWriteSwallowed(writeOk) == "done"
\* fs.writeFileSync(outputFile, ...) stands in no try: when it throws, main
\* ends there, before the report of a successful save; the rejection goes to
\* main().catch(console.error).
AfterWrite(writeOk) == IF writeOk THEN "done" ELSE "failed"

\* Whether the save step throws between the read and the write.  With null,
\* a number or a string as existingData, existingData.consoles[consoleName]
\* behind the try is a TypeError (the one inside the try was caught, or the
\* assignment of consoles did nothing); with an entry that has no pages,
\* consoleData.pages.findIndex is one.
SaveThrows(file) == file.kind \in {"null", "scalar", "noPages"}

\* JSON.stringify(existingData, null, 2): of an array only the elements are
\* written, not the consoles and totals main has set on it.
WrittenDocument(file, c, page, rs) ==
    IF file.kind = "array" THEN DocOf("array", EmptyConsoles, 0)
    ELSE MergeDocument(file, c, page, rs)

\* A departure from the read in the save step: the document is the one the
\* run found when it started.
DocumentReadAtStart(atStart, atSave) == atStart
\* fs.readFileSync(outputFile) stands in the save step, behind the fetches.
DocumentToMerge(atStart, atSave) == atSave

\* The save step of main: read the document, merge, write it back.
Save(writeOk) ==
    /\ pc = "save"
    /\ LET file == DocumentToMerge(atLaunch.outFile, outFile)
       IN /\ outFile' = IF writeOk /\ ~SaveThrows(file)
                        THEN WrittenDocument(file, consoleName, pageNumber, romsWithDetails)
                        ELSE outFile
          /\ pc' = IF SaveThrows(file) THEN "failed" ELSE AfterWrite(writeOk)
    /\ readDoc' = outFile
    /\ UNCHANGED <<stateFile, runs, consoleName, pageNumber, startId, nextId,
                   currentPage, allRoms, seenUrls, roms, romsWithDetails,
                   pageLog, issued, loaded, base, prevRoms, detailIds, persist,
                   atLaunch, cut>>

\* The process is gone: only the two files remain.
ProcessEnds ==
    /\ pc' = "idle"
    /\ consoleName' = "nintendo"
    /\ pageNumber' = 1
    /\ startId' = NoStartId
    /\ nextId' = InitialNextId
    /\ currentPage' = 1
    /\ allRoms' = <<>>
    /\ seenUrls' = {}
    /\ roms' = <<>>
    /\ romsWithDetails' = <<>>
    /\ pageLog' = <<>>
    /\ issued' = <<>>
    /\ loaded' = InitialNextId
    /\ base' = InitialNextId
    /\ readDoc' = NoDoc
    /\ prevRoms' = roms
    /\ detailIds' = {}
    /\ persist' = "none"
    /\ atLaunch' = FilesOf(stateFile, outFile)
    /\ UNCHANGED <<stateFile, outFile, runs>>

\* main returns or rejects and the process ends.
Exit ==
    /\ pc \in {"done", "failed"}
    /\ cut' = NoCut
    /\ ProcessEnds

\* The process is killed while main is running (a signal, a power cut).
Interrupt ==
    /\ pc \in {"constructed", "fetch", "collect", "enrich", "save"}
    /\ cut' = CutOf(IF pageNumber = -1 /\ pc \in {"constructed", "fetch", "collect"}
                    THEN "before" ELSE "later",
                    loaded, IF issued = <<>> THEN 0 ELSE issued[1], atLaunch)
    /\ ProcessEnds

\* Another run of the program, started elsewhere on the same output file,
\* saves its page while this run is between its start and its save step.
ForeignSave(c, p, rs) ==
    /\ pc \in {"constructed", "fetch", "collect", "enrich", "save"}
    /\ outFile = atLaunch.outFile
    /\ outFile' = MergeDocument(outFile, c, p, rs)
    /\ UNCHANGED <<stateFile, runs, pc, consoleName, pageNumber, startId, nextId,
                   currentPage, allRoms, seenUrls, roms, romsWithDetails,
                   pageLog, issued, loaded, base, readDoc, prevRoms, detailIds,
                   persist, atLaunch, cut>>

\* A caller's use of the client up to the return of fetchRoms, as in
\* test_page_all.ts: at most limit clients are constructed, --start-id is
\* drawn from startIds, --console from consoles, --page from pages, the site's
\* answers from
\* responses, and saveState's write succeeds or not as writes allows (the
\* write of the document as docWrites allows).
Fetching(limit, consoles, pages, startIds, responses, writes) ==
    \/ \E c \in consoles, p \in pages, sid \in startIds :
          runs < limit /\ Launch(c, p, sid)
    \/ ApplyStartId
    \/ \E resp \in responses : FetchOnePage(resp)
    \/ \E resp \in responses : TraversePage(resp)
    \/ \E writeOk \in writes : ReturnAll(writeOk)

\* The steps of a run of main; a detail fetch finds its page or not as
\* details allows.
Run(limit, consoles, pages, startIds, responses, details, writes, docWrites) ==
    \/ Fetching(limit, consoles, pages, startIds, responses, writes)
    \/ \E found \in details : EnrichNext(found)
    \/ \E writeOk \in docWrites : Save(writeOk)
    \/ Exit

\* Repeated runs into one document, no --start-id, a site of one-link pages.
Next == Run(MaxRuns, Consoles, PageArgs, {NoStartId}, OneLinkResponses, BOOLEAN, {TRUE}, {TRUE})
Spec == Init /\ [][Next]_vars

\* One fetch, with or without a start id, from a site whose pages hold up
\* to MaxLinks links.
NextTraverse ==
    Fetching(1, {"nintendo"}, PageArgs, {NoStartId, StartIdOf("num", MaxStored * Unit)},
             Responses, BOOLEAN)
SpecTraverse == InitFresh /\ [][NextTraverse]_vars

\* One run into a document that earlier runs have written (up to MaxMerges
\* saves of one-rom lists, under any console and page label), or into a file
\* that cannot be parsed; every detail page is found.
SavedLists ==
    {GetRomsByConsole(resp, InitialNextId).roms : resp \in OneLinkResponses} \ {<<>>}
RECURSIVE DocsAfter(_)
DocsAfter(n) ==
    IF n = 0 THEN {NoDoc}
    ELSE LET earlier == DocsAfter(n - 1)
         IN earlier \cup {MergeDocument(d, c, p, rs) :
                             d \in earlier, c \in Consoles, p \in PageArgs, rs \in SavedLists}
\* A document file cut short: its bytes still show what was saved, but
\* JSON.parse throws on them.
TruncatedDocs ==
    {DocOf("unparsable", d.consoles, d.totalConsoles) : d \in DocsAfter(1)}
InitMerge ==
    /\ stateFile = NoStateFile
    /\ outFile \in DocsAfter(MaxMerges) \cup TruncatedDocs
    /\ InitRun
NextMerge == Run(1, Consoles, PageArgs, {NoStartId}, OneLinkResponses, {TRUE}, {TRUE}, {TRUE})
SpecMerge == InitMerge /\ [][NextMerge]_vars

\* One run that finds any state file and is given any --start-id; either
\* file may fail to be written.
InitAlloc ==
    /\ stateFile \in StateFiles
    /\ outFile = NoDoc
    /\ InitRun
NextAlloc == Run(1, {"nintendo"}, PageArgs, StartIds, OneLinkResponses, BOOLEAN, BOOLEAN, BOOLEAN)
SpecAlloc == InitAlloc /\ [][NextAlloc]_vars

\* Runs of --page=-1 or --page=1 that can be killed at any point, each
\* finding the files the runs before it left.
NextInterrupt ==
    \/ Run(MaxRuns, {"nintendo"}, {AllPages, 1}, {NoStartId}, OneLinkResponses,
           {TRUE}, {TRUE}, {TRUE})
    \/ Interrupt
InitInterrupt ==
    /\ stateFile \in {NoStateFile} \cup {StateFileOf("nextId", v * Unit) : v \in 1..MaxStored}
    /\ outFile = NoDoc
    /\ InitRun
SpecInterrupt == InitInterrupt /\ [][NextInterrupt]_vars

\* One run, while another run saves into the same document.
NextShared ==
    \/ Run(1, Consoles, PageArgs, {NoStartId}, OneLinkResponses, {TRUE}, {TRUE}, {TRUE})
    \/ \E c \in Consoles, p \in PageArgs, rs \in SavedLists : ForeignSave(c, p, rs)
SpecShared == Init /\ [][NextShared]_vars

\* One run into an output file that something else wrote.
InitForeign ==
    /\ stateFile = NoStateFile
    /\ outFile \in ForeignDocs
    /\ InitRun
NextForeign == Run(1, Consoles, PageArgs, {NoStartId}, OneLinkResponses, BOOLEAN, {TRUE}, {TRUE})
SpecForeign == InitForeign /\ [][NextForeign]_vars

\* One fetch against a site that answers every request: a step that can be
\* taken is taken in the end.
NextTerminate == Fetching(1, Consoles, PageArgs, {NoStartId}, OneLinkResponses, BOOLEAN)
SpecTerminate == InitFresh /\ [][NextTerminate]_vars /\ WF_vars(NextTerminate)

\* ============================================================ properties
\* What the formulas below share.
AllMode == pageNumber = -1
\* fetchRoms has returned its list to main.
Returned == pc \in {"enrich", "save", "done"}
Range(xs) == {xs[i] : i \in 1..Len(xs)}
UrlsOf(xs) == {xs[i].downloadUrl : i \in 1..Len(xs)}

\* The downloadUrls the adapter returned on the calls before the k-th.
UrlsBefore(k) == UNION {UrlsOf(pageLog[j].roms) : j \in 1..(k - 1)}
\* The k-th call returned records, every one of them seen on an earlier page.
RepeatPage(k) ==
    /\ pageLog[k].roms # <<>>
    /\ UrlsOf(pageLog[k].roms) \subseteq UrlsBefore(k)
EmptyPage(k) == pageLog[k].roms = <<>>

\* The lists of the calls before the k-th, one after the other.
RECURSIVE PagesBefore(_)
PagesBefore(k) ==
    IF k <= 1 THEN <<>> ELSE PagesBefore(k - 1) \o pageLog[k - 1].roms
\* xs without the records whose downloadUrl an earlier record of xs has.
FirstOccurrences(xs) ==
    LET first == {i \in 1..Len(xs) :
                    \A j \in 1..(i - 1) : xs[j].downloadUrl # xs[i].downloadUrl}
        nth(n) == CHOOSE i \in first : Cardinality({j \in first : j <= i}) = n
    IN [n \in 1..Cardinality(first) |-> xs[nth(n)]]

\* C1: the list an all-pages traversal returns never holds two records with
\* the same downloadUrl, whatever the pages were (repeats of earlier pages
\* included).
C1_NoDuplicateUrl ==
    AllMode =>
        \A i, j \in 1..Len(roms) :
            i # j => roms[i].downloadUrl # roms[j].downloadUrl
\* A traversal returned two records after a page that mixed a seen record with a new one.
C1_Witness ==
    /\ AllMode
    /\ pc = "enrich"
    /\ Len(roms) >= 2
    /\ \E k \in 2..Len(pageLog) :
          /\ UrlsOf(pageLog[k].roms) \cap UrlsBefore(k) # {}
          /\ ~(UrlsOf(pageLog[k].roms) \subseteq UrlsBefore(k))

\* C2: stop-on-repeat.  When page k returns a non-empty list all of whose
\* downloadUrls were seen on pages 1..k-1, the traversal stops there: page k
\* is the last page requested, nothing of page k is appended, and the list
\* returned is exactly what pages 1..k-1 accumulated.
C2_StopOnRepeat ==
    AllMode =>
        \A k \in 1..Len(pageLog) :
            RepeatPage(k) =>
                /\ k = Len(pageLog)
                /\ pc # "fetch"
                /\ currentPage = k
                /\ Range(pageLog[k].roms) \cap Range(allRoms) = {}
                /\ Returned => roms = FirstOccurrences(PagesBefore(k))
\* A traversal returned two records after its third page repeated them.
C2_Witness ==
    /\ AllMode
    /\ pc = "enrich"
    /\ Len(pageLog) = 3
    /\ RepeatPage(3)
    /\ Len(pageLog[3].roms) = 2
    /\ Len(roms) = 2

\* C3: stop-on-empty.  When the adapter returns no record for page k, the
\* traversal stops there: page k is the last page requested and the list
\* returned is exactly the deduplicated records of pages 1..k-1.
C3_StopOnEmpty ==
    AllMode =>
        \A k \in 1..Len(pageLog) :
            EmptyPage(k) =>
                /\ k = Len(pageLog)
                /\ pc # "fetch"
                /\ currentPage = k
                /\ Returned => roms = FirstOccurrences(PagesBefore(k))
\* Two pages of new records, then an empty page: the traversal returned them all.
C3_Witness ==
    /\ AllMode
    /\ pc = "enrich"
    /\ Len(pageLog) = 3
    /\ EmptyPage(3)
    /\ Len(roms) = Len(pageLog[1].roms) + Len(pageLog[2].roms)
    /\ Len(roms) >= 2

\* C4: every record an all-pages traversal returns carries a number as id,
\* and no two of them carry the same id.
C4_DistinctIds ==
    AllMode =>
        \A i, j \in 1..Len(roms) :
            /\ roms[i].id \in Int
            /\ i # j => roms[i].id # roms[j].id
\* A traversal returned several records although more ids were handed out
\* than records returned (duplicates and a closing page took ids too).
C4_Witness ==
    /\ AllMode
    /\ pc = "enrich"
    /\ Len(roms) >= 2
    /\ Len(issued) > Len(roms)

\* Every record of every page entry of every console of a document file.
ConsoleRecords(data) == UNION {Range(data.pages[i].roms) : i \in 1..Len(data.pages)}
DocRecords(file) == UNION {ConsoleRecords(file.consoles[c]) : c \in DOMAIN file.consoles}

\* C5: document-level identifier uniqueness.  After any sequence of runs
\* without --start-id that save into the same document, no two records of
\* the document that stand for different roms (different url) have the same id.
C5_DocumentIdsUnique ==
    \A r1, r2 \in DocRecords(outFile) :
        r1.url # r2.url => r1.id # r2.id

\* C6: id persistence between runs.  The first id a run without --start-id
\* hands out is greater than every id of the list the run before it fetched.
C6_ContinuesAfterPreviousRun ==
    (startId.kind = "none" /\ issued # <<>>) =>
        \A i \in 1..Len(prevRoms) : issued[1] > prevRoms[i].id

\* C7: the ids handed out since the run's fetch began (no setStartId comes
\* in between) are the consecutive numbers base, base + 1, ..., and the
\* counter is base plus their number.
C7_ConsecutiveIds ==
    /\ \A i \in 1..Len(issued) : issued[i] = base + (i - 1) * Unit
    /\ nextId = base + Len(issued) * Unit
\* A page of several links and a later call: a batch of three ids or more,
\* counted from a --start-id.
C7_Witness ==
    /\ Len(issued) >= 3
    /\ Len(pageLog) >= 2
    /\ \E k \in 1..Len(pageLog) : Len(pageLog[k].roms) >= 2
    /\ base # InitialNextId

\* C8: setStartId(n) with n <= 0 leaves the counter as the constructor
\* loaded it; with n > 0 it sets the counter to n whatever was loaded, and
\* the next id handed out is n.
FirstId == IF issued = <<>> THEN nextId ELSE issued[1]
C8_SetStartId ==
    (pc \in {"fetch", "collect", "enrich", "save", "done"} /\ startId.kind = "num") =>
        IF startId.val > 0 THEN FirstId = startId.val ELSE FirstId = loaded
\* --start-id below the loaded counter, and an id has been handed out.
C8_Witness ==
    /\ startId.kind = "num"
    /\ startId.val > 0
    /\ startId.val < loaded
    /\ issued # <<>>
    /\ issued[1] = startId.val

\* C9: the constructor takes the persisted nextId when the state file holds
\* a positive integer, and starts from 1 in every other case.
IsPositiveInteger(v) == v > 0 /\ v % Unit = 0
C9_LoadOrDefault ==
    pc = "constructed" =>
        nextId = IF stateFile.kind = "nextId" /\ IsPositiveInteger(stateFile.val)
                 THEN stateFile.val
                 ELSE Unit

\* C10: merge overwrite.  A save under a label the console already has an
\* entry for leaves exactly one entry with that label, holding the records
\* and the count of the new fetch; the console's totalRoms is the sum of the
\* entries' record counts, not the old total plus the new count.
RunLabel == IF pageNumber = -1 THEN AllPages ELSE pageNumber
HadEntry(file, c, label) ==
    /\ file.kind = "object"
    /\ c \in DOMAIN file.consoles
    /\ \E i \in 1..Len(file.consoles[c].pages) : file.consoles[c].pages[i].page = label
RECURSIVE SumOfLengths(_)
SumOfLengths(pages) ==
    IF pages = <<>> THEN 0 ELSE Len(Head(pages).roms) + SumOfLengths(Tail(pages))
Saved == pc = "done" /\ romsWithDetails # <<>>
C10_MergeOverwrite ==
    (Saved /\ HadEntry(readDoc, consoleName, RunLabel)) =>
        LET now == outFile.consoles[consoleName]
            at == {i \in 1..Len(now.pages) : now.pages[i].page = RunLabel}
        IN /\ Cardinality(at) = 1
           /\ \A i \in at : /\ now.pages[i].roms = romsWithDetails
                            /\ now.pages[i].totalRoms = Len(romsWithDetails)
           /\ now.totalRoms = SumOfLengths(now.pages)
           /\ now.totalRoms # readDoc.consoles[consoleName].totalRoms + Len(romsWithDetails)
\* A save replaced an entry of other content, in a console with two entries.
C10_Witness ==
    /\ Saved
    /\ HadEntry(readDoc, consoleName, RunLabel)
    /\ Len(readDoc.consoles[consoleName].pages) = 2
    /\ \E i \in 1..2 :
          /\ readDoc.consoles[consoleName].pages[i].page = RunLabel
          /\ readDoc.consoles[consoleName].pages[i].roms # romsWithDetails
          /\ outFile.consoles[consoleName].pages[i].roms = romsWithDetails

\* C11: merge append and sort.  After every merge each console's page list
\* has its numeric labels in ascending order and the 'all' entry, if any, in
\* the last place, in whatever order the pages were merged.
Labels(pages) == [i \in 1..Len(pages) |-> pages[i].page]
Ordered(pages) ==
    \A i, j \in 1..Len(pages) :
        i < j => /\ pages[i].page # AllPages
                 /\ pages[j].page # AllPages => pages[i].page <= pages[j].page
C11_PagesSorted ==
    outFile.kind = "object" =>
        \A c \in DOMAIN outFile.consoles : Ordered(outFile.consoles[c].pages)
\* Page 1 was merged after page 2 and 'all', and stands first of the three.
C11_Witness ==
    /\ Saved
    /\ RunLabel = 1
    /\ readDoc.kind = "object"
    /\ consoleName \in DOMAIN readDoc.consoles
    /\ Labels(readDoc.consoles[consoleName].pages) = <<2, AllPages>>
    /\ Labels(outFile.consoles[consoleName].pages) = <<1, 2, AllPages>>

\* C12: from an absent or empty document, after any sequence of merges, a
\* console's page list holds each page label at most once, and so at most
\* one 'all' entry.
C12_LabelsUnique ==
    outFile.kind = "object" =>
        \A c \in DOMAIN outFile.consoles :
            \A i, j \in 1..Len(outFile.consoles[c].pages) :
                i # j => outFile.consoles[c].pages[i].page
                            # outFile.consoles[c].pages[j].page
\* An 'all' fetch was saved into a console that had an 'all' entry and a page.
C12_Witness ==
    /\ Saved
    /\ RunLabel = AllPages
    /\ HadEntry(readDoc, consoleName, AllPages)
    /\ Len(readDoc.consoles[consoleName].pages) = 2
    /\ Len(outFile.consoles[consoleName].pages) = 2

\* C13: after every merge the merged console's totalPages is the number of
\* its entries with a numeric label, its totalRoms is the sum of the entries'
\* record counts ('all' included), and the document's totalConsoles is the
\* number of console keys.
RECURSIVE CountNumeric(_)
CountNumeric(pages) ==
    IF pages = <<>> THEN 0
    ELSE CountNumeric(Tail(pages)) + (IF Head(pages).page = AllPages THEN 0 ELSE 1)
RECURSIVE SumOfCounts(_)
SumOfCounts(pages) ==
    IF pages = <<>> THEN 0
    ELSE SumOfCounts(SubSeq(pages, 1, Len(pages) - 1)) + pages[Len(pages)].totalRoms
C13_Totals ==
    Saved =>
        LET now == outFile.consoles[consoleName]
        IN /\ now.totalPages = CountNumeric(now.pages)
           /\ now.totalRoms = SumOfCounts(now.pages)
           /\ outFile.totalConsoles = Cardinality(DOMAIN outFile.consoles)
\* A save into a document of two consoles left the merged console with one
\* numbered page and an 'all' entry.
C13_Witness ==
    /\ Saved
    /\ Cardinality(DOMAIN outFile.consoles) = 2
    /\ Len(outFile.consoles[consoleName].pages) = 2
    /\ outFile.consoles[consoleName].totalPages = 1
    /\ outFile.consoles[consoleName].totalRoms = 2
    /\ outFile.totalConsoles = 2

\* C14: identifier preservation across enrichment.  Every record of
\* romsWithDetails, and so of the entry the run saves, has the id its rom was
\* listed with; the ids getRomDetails hands out are in no saved record.
WrittenEntries ==
    {e \in Range(outFile.consoles[consoleName].pages) : e.page = RunLabel}
C14_ListedIdKept ==
    /\ \A i \in 1..Len(romsWithDetails) : romsWithDetails[i].id = roms[i].id
    /\ Saved =>
          \A e \in WrittenEntries :
              /\ Len(e.roms) = Len(roms)
              /\ \A i \in 1..Len(e.roms) :
                    /\ e.roms[i].id = roms[i].id
                    /\ e.roms[i].id \notin detailIds
\* Two listed roms were saved, one of them as the record its detail fetch made.
C14_Witness ==
    /\ Saved
    /\ Len(roms) = 2
    /\ detailIds # {}
    /\ \E e \in WrittenEntries : \E i \in 1..Len(e.roms) : e.roms[i].detail

\* C15: when the document file is absent or cannot be parsed the save goes
\* through against a fresh empty document: the file written holds the one
\* console of the run with the one new entry, and nothing of what the file
\* held.
C15_FreshDocument ==
    (Saved /\ readDoc.kind \in {"absent", "unparsable"}) =>
        outFile =
            DocOf("object",
                  [c \in {consoleName} |->
                      ConsoleData(<<PageEntry(RunLabel, romsWithDetails)>>,
                                  IF RunLabel = AllPages THEN 0 ELSE 1,
                                  Len(romsWithDetails))],
                  1)
\* A save over a file cut short, which still showed an entry of another console.
C15_Witness ==
    /\ Saved
    /\ readDoc.kind = "unparsable"
    /\ DOMAIN readDoc.consoles # {}
    /\ consoleName \notin DOMAIN readDoc.consoles
    /\ DOMAIN outFile.consoles = {consoleName}

\* C16: a page request that fails does not end the all-pages traversal.
\* The traversal cannot know what the later pages hold without asking, so
\* after a failed page k it is still fetching, or has gone on to page k + 1.
C16_ErrorDoesNotStop ==
    AllMode =>
        \A k \in 1..Len(pageLog) :
            ~pageLog[k].ok => (pc = "fetch" \/ k < Len(pageLog))

\* C17: a failed write of the state file is swallowed.  saveState never
\* raises; when its write failed the counter is what the allocations left,
\* and the traversal has returned everything it accumulated.
C17_SaveStateSwallowed ==
    /\ persist # "raised"
    /\ persist = "failed" =>
          /\ Returned
          /\ nextId = base + Len(issued) * Unit
          /\ roms = FirstOccurrences(PagesBefore(Len(pageLog)))
\* The state file could not be written after a traversal that found two roms.
C17_Witness ==
    /\ persist = "failed"
    /\ Len(roms) = 2
    /\ pc = "enrich"

\* C18: a failed write of the document is not swallowed.  The run reports a
\* save only when the file holds the merged document; a failed write ends
\* the run as failed.
C18_WriteFailureSurfaced ==
    Saved => outFile = MergeDocument(readDoc, consoleName, pageNumber, romsWithDetails)
\* The write failed: the run has ended as failed and the file lacks its data.
C18_Witness ==
    /\ pc = "failed"
    /\ romsWithDetails # <<>>
    /\ outFile # MergeDocument(outFile, consoleName, pageNumber, romsWithDetails)

\* C19: single-page mode.  fetchRoms with a page other than -1 makes one
\* adapter call, for that page, and returns the adapter's list as it is:
\* the empty list when the request failed.
C19_SinglePage ==
    (~AllMode /\ pc \notin {"idle", "constructed"}) =>
        IF pc = "fetch" THEN pageLog = <<>>
        ELSE /\ Len(pageLog) = 1
             /\ pageLog[1].page = pageNumber
             /\ roms = pageLog[1].roms
             /\ ~pageLog[1].ok => roms = <<>>
\* Page 2 alone was fetched and listed two roms.
C19_Witness ==
    /\ pageNumber = 2
    /\ pc = "enrich"
    /\ Len(pageLog) = 1
    /\ Len(roms) = 2

\* C20: the all-pages traversal asks for pages 1, 2, 3, ... in order, with
\* no gap and none asked twice, and asks for the next page only when the
\* list of the page before is dealt with: all its urls are in seenUrls.
C20_PagesInOrder ==
    AllMode =>
        /\ \A k \in 1..Len(pageLog) : pageLog[k].page = k
        /\ pc = "fetch" =>
              /\ currentPage = Len(pageLog) + 1
              /\ \A k \in 1..Len(pageLog) : UrlsOf(pageLog[k].roms) \subseteq seenUrls
\* Three pages were asked for, the third after two that brought new roms.
C20_Witness ==
    /\ AllMode
    /\ Len(pageLog) = 3
    /\ pageLog[3].page = 3
    /\ Len(allRoms) = 2

\* C21: a page that mixes new and seen records adds exactly its new ones,
\* in the adapter's order.  What the traversal has accumulated, and what it
\* returns, is the first occurrence of each downloadUrl over the pages so
\* far, each with the id of that occurrence, in the order of discovery.
C21_DiscoveryOrder ==
    AllMode =>
        /\ pc = "fetch" => allRoms = FirstOccurrences(PagesBefore(Len(pageLog) + 1))
        /\ Returned => roms = FirstOccurrences(PagesBefore(Len(pageLog) + 1))
\* The second page listed a seen rom and then a new one; the new one alone
\* was added behind the first page's.
C21_Witness ==
    /\ AllMode
    /\ pc = "fetch"
    /\ Len(pageLog) = 2
    /\ Len(pageLog[2].roms) = 2
    /\ pageLog[2].roms[1].downloadUrl \in UrlsBefore(2)
    /\ pageLog[2].roms[2].downloadUrl \notin UrlsBefore(2)
    /\ allRoms = pageLog[1].roms \o <<pageLog[2].roms[2]>>

\* C22: the all-pages traversal has no page cap and ends only by an empty
\* page or a page with nothing new.  The page it ends on is such a page and
\* no page before it is; with MaxUrl distinct urls on the site it makes at
\* most MaxUrl + 1 requests, and when every request is answered it ends.
StopPage(k) == EmptyPage(k) \/ RepeatPage(k)
C22_Bounded ==
    AllMode =>
        /\ Len(pageLog) <= MaxUrl + 1
        /\ \A k \in 1..(Len(pageLog) - 1) : ~StopPage(k)
        /\ pc = "fetch" => \A k \in 1..Len(pageLog) : ~StopPage(k)
        /\ pc \in {"collect", "enrich", "done"} =>
              Len(pageLog) >= 1 /\ StopPage(Len(pageLog))
C22_EndsOnlyByStop ==
    /\ []C22_Bounded
    /\ (AllMode /\ pc = "fetch") ~> (AllMode /\ pc # "fetch")
\* A traversal ended on its request number MaxUrl + 1.
C22_Witness ==
    /\ AllMode
    /\ pc = "collect"
    /\ Len(pageLog) = MaxUrl + 1

\* C23: batch persistence.  While the pages of an all-pages traversal are
\* fetched the state file is as the run found it; saveState() has run when
\* fetchRoms returns, and not before, and what it wrote is the counter at
\* that moment.
C23_BatchPersistence ==
    AllMode =>
        /\ pc \in {"fetch", "collect"} =>
              persist = "none" /\ stateFile = atLaunch.stateFile
        /\ Returned =>
              /\ persist \in {"saved", "failed"}
              /\ persist = "saved" => stateFile = StateFileOf("nextId", nextId)
              /\ persist = "failed" => stateFile = atLaunch.stateFile
\* The state file was written after a traversal that handed out three ids or more.
C23_Witness ==
    /\ AllMode
    /\ pc = "enrich"
    /\ persist = "saved"
    /\ Len(issued) >= 3
    /\ stateFile = StateFileOf("nextId", base + Len(issued) * Unit)

\* C30: the ids of the records an all-pages traversal returns increase
\* strictly along the result and lie between the counter before the
\* traversal (included) and the counter after it (excluded).  They need not
\* be consecutive: links dropped as duplicates took ids too.
C30_IdsIncreasing ==
    (AllMode /\ Returned) =>
        /\ \A i, j \in 1..Len(roms) : i < j => roms[i].id < roms[j].id
        /\ \A i \in 1..Len(roms) : base <= roms[i].id /\ roms[i].id < nextId
\* Two records were returned whose ids are not consecutive.
C30_Witness ==
    /\ AllMode
    /\ pc = "enrich"
    /\ Len(roms) = 2
    /\ roms[2].id > roms[1].id + Unit
    /\ Len(issued) > Len(roms)

\* C24: a run cut short before the persist step of its all-pages traversal
\* leaves the state file and the document as it found them.  The run after
\* it starts from the same counter and, when both have listed a rom, gives
\* its first rom the id the interrupted run gave its first.
C24_InterruptedBatch ==
    cut.at = "before" =>
        /\ pc = "idle" =>
              /\ stateFile = cut.files.stateFile
              /\ outFile = cut.files.outFile
        /\ pc # "idle" =>
              /\ atLaunch = cut.files
              /\ loaded = cut.loaded
              /\ loaded = LoadState(cut.files.stateFile, InitialNextId)
              /\ (issued # <<>> /\ cut.first # 0) => issued[1] = cut.first
\* The run after an interrupted traversal has issued the interrupted run's
\* first id again, continuing a persisted counter.
C24_Witness ==
    /\ cut.at = "before"
    /\ cut.first > InitialNextId
    /\ pc = "enrich"
    /\ issued # <<>>
    /\ issued[1] = cut.first
    /\ DocRecords(outFile) = {}

\* C25: the document is read at the save step, after the fetch and the
\* enrichment, and written in that step.  What a run writes is its page
\* merged into the file as it was at the save step; when the file changed
\* since the run started, the copy from before the fetch is not what is
\* written.
MergedInto(file) == MergeDocument(file, consoleName, pageNumber, romsWithDetails)
C25_ReadAtSaveStep ==
    /\ pc \in {"constructed", "fetch", "collect", "enrich", "save"} => readDoc = NoDoc
    /\ Saved =>
          /\ outFile = MergedInto(readDoc)
          /\ MergedInto(atLaunch.outFile) # MergedInto(readDoc) =>
                outFile # MergedInto(atLaunch.outFile)
\* The file changed between the start of the run and its save step, and the
\* run saved into the changed file.
C25_Witness ==
    /\ Saved
    /\ readDoc # atLaunch.outFile
    /\ MergedInto(atLaunch.outFile) # MergedInto(readDoc)
    /\ outFile = MergedInto(readDoc)

\* C26: merge frame.  A save of a page with label L into console C leaves
\* every other console of the document as it was, keeps every entry of C
\* with another label as it was, and removes no console and no entry: the
\* consoles afterwards are those before and C.
C26_MergeFrame ==
    (Saved /\ readDoc.kind = "object") =>
        /\ DOMAIN outFile.consoles = DOMAIN readDoc.consoles \cup {consoleName}
        /\ \A c \in DOMAIN readDoc.consoles \ {consoleName} :
              outFile.consoles[c] = readDoc.consoles[c]
        /\ consoleName \in DOMAIN readDoc.consoles =>
              /\ \A e \in Range(readDoc.consoles[consoleName].pages) :
                    e.page # RunLabel =>
                        e \in Range(outFile.consoles[consoleName].pages)
              /\ Len(outFile.consoles[consoleName].pages) >=
                    Len(readDoc.consoles[consoleName].pages)
\* The document held another console and, under the run's console, an entry
\* with another label; the run saved into it.
C26_Witness ==
    /\ Saved
    /\ readDoc.kind = "object"
    /\ DOMAIN readDoc.consoles \ {consoleName} # {}
    /\ consoleName \in DOMAIN readDoc.consoles
    /\ \E e \in Range(readDoc.consoles[consoleName].pages) : e.page # RunLabel
    /\ Len(outFile.consoles[consoleName].pages) = 2

\* C27: enrichment takes the listed records one at a time in listing order
\* and yields one record for each, in the same order: the detail record with
\* the listed id when the detail fetch succeeded, the listed record itself
\* when it did not.  A failed detail fetch drops nothing and does not end
\* the loop: the save step starts with as many records as were listed.
DetailRecord(rom) == RomOf(rom.id, rom.downloadUrl, DownloadLink(rom.downloadUrl), TRUE)
C27_OnePerListed ==
    /\ Len(romsWithDetails) <= Len(roms)
    /\ \A i \in 1..Len(romsWithDetails) :
          romsWithDetails[i] \in {roms[i], DetailRecord(roms[i])}
    /\ pc = "enrich" => Len(romsWithDetails) < Len(roms)
    /\ (pc \in {"save", "failed"} \/ Saved) => Len(romsWithDetails) = Len(roms)
\* Two records were listed; the details of the first were not fetched, those
\* of the second were, and both are in the output, in order.
C27_Witness ==
    /\ pc = "save"
    /\ Len(roms) = 2
    /\ romsWithDetails[1] = roms[1]
    /\ romsWithDetails[2] = DetailRecord(roms[2])
    /\ romsWithDetails[2] # roms[2]

\* C29: a fetch that yields no record skips the save step.  The run ends
\* with the document file as it found it, without having read it: nothing is
\* created, and an entry already saved under the run's label stays.
C29_EmptyFetchSkipsSave ==
    (pc = "done" /\ roms = <<>>) =>
        /\ outFile = atLaunch.outFile
        /\ readDoc = NoDoc
        /\ romsWithDetails = <<>>
\* A fetch came back empty while the document held an entry under the run's
\* console and label.
C29_Witness ==
    /\ pc = "done"
    /\ roms = <<>>
    /\ Len(pageLog) >= 1
    /\ HadEntry(outFile, consoleName, RunLabel)
    /\ outFile = atLaunch.outFile

\* C28: whatever an existing output file parses to (an object without
\* consoles, an object whose entry for the run's console has no pages, null,
\* a number, a string, an array), a run that fetched records completes its
\* save step, and the file then holds the run's entry under its console.
C28_ParsableFileSaved ==
    (/\ pc \in {"done", "failed"}
     /\ romsWithDetails # <<>>
     /\ atLaunch.outFile \in ForeignDocs) =>
        /\ pc = "done"
        /\ HadEntry(outFile, consoleName, RunLabel)

====
